---- MODULE Spec2Model ----
(***************************************************************************)
(* Model of the news digest bot (src/bot.py): the fetch pipeline, the      *)
(* digest run, the settings callbacks, the free-text message handler with  *)
(* its per-user pending markers, and the schedule re-derivation.            *)
(*                                                                         *)
(* Texts (titles, links, typed messages, delivery times) are sequences of  *)
(* one-character strings, so that strip(), the HH:MM pattern and the       *)
(* "[Removed]" test are computed as the code computes them.  A summary is   *)
(* represented by its length only.  Topic keys are strings.                *)
(***************************************************************************)
EXTENDS Integers, Sequences, FiniteSets, TLC

VARIABLES
    topics,                 \* bot.py:48   key -> topic config
    delivery_times,         \* bot.py:52   settings["delivery_times"]
    active_topics,          \* bot.py:53   settings["active_topics"]
    news_count,             \* bot.py:54   settings["news_count"]
    todays_digest,          \* bot.py:58   key -> list of articles
    conversation_history,   \* bot.py:59   history of the one chat
    last_reply,             \* bot.py:60   last reply of the one chat
    user_data,              \* context.user_data of the one user
    jobs,                   \* app.job_queue: the registered recurring jobs
    runs,                   \* the send_digest coroutines in flight
    buttons,                \* callback tokens on the keyboards sent so far
    out,                    \* what the last handler sent / forwarded / raised
    rss_world,              \* what the primary feeds of a topic hold
    newsapi_world,          \* what the fallback search holds
    fetch_out               \* result of the last stand-alone fetch_section

vars == <<topics, delivery_times, active_topics, news_count, todays_digest,
          conversation_history, last_reply, user_data, jobs, runs, buttons,
          out, rss_world, newsapi_world, fetch_out>>

-----------------------------------------------------------------------------
(* Python values *)

\* None, and a present value, of an optional (dict.get without default)
None == <<>>
Some(x) == <<x>>
Val(o) == o[1]

Min(a, b) == IF a <= b THEN a ELSE b

\* s[:n]
Take(s, n) == SubSeq(s, 1, Min(n, Len(s)))

\* a text as a sequence of characters
Digits == {"0", "1", "2", "3", "4", "5", "6", "7", "8", "9"}

RECURSIVE StripLeft(_)
StripLeft(s) ==
    IF s # <<>> /\ Head(s) = " " THEN StripLeft(Tail(s)) ELSE s

RECURSIVE StripRight(_)
StripRight(s) ==
    IF s # <<>> /\ s[Len(s)] = " " THEN StripRight(SubSeq(s, 1, Len(s) - 1)) ELSE s

\* str.strip()
Strip(s) == StripRight(StripLeft(s))

\* sub in s
Contains(sub, s) ==
    \E i \in 1..(Len(s) - Len(sub) + 1) : SubSeq(s, i, i + Len(sub) - 1) = sub

-----------------------------------------------------------------------------
(* Fetch pipeline: fetch_rss, fetch_newsapi, fetch_section *)

\* the [:400] of bot.py:121 and bot.py:136, on a summary given by its length
SummaryCap == 400
Truncate(n) == IF n > SummaryCap THEN SummaryCap ELSE n

\* the threshold of bot.py:149 under which the fallback search is consulted
MinPrimary == 3

\* bot.py:118-121: one feed entry; appended when title and link are non-empty
RssAppend(articles, e) ==
    LET t == Strip(e.title)
        l == Strip(e.link)
    IN  IF t # <<>> /\ l # <<>>
        THEN Append(articles, [title |-> t, link |-> l, summary |-> Truncate(e.summary)])
        ELSE articles

\* bot.py:115-121: the inner loop over one feed's entries
RECURSIVE RssEntriesLoop(_, _, _)
RssEntriesLoop(entries, articles, max_total) ==
    IF entries = <<>> \/ Len(articles) >= max_total
    THEN articles
    ELSE RssEntriesLoop(Tail(entries), RssAppend(articles, Head(entries)), max_total)

\* bot.py:109-124: a feed that fails to parse contributes nothing
RECURSIVE fetch_rss_loop(_, _, _)
fetch_rss_loop(feeds, articles, max_total) ==
    IF feeds = <<>> \/ Len(articles) >= max_total
    THEN articles
    ELSE fetch_rss_loop(Tail(feeds),
                        IF Head(feeds).ok
                        THEN RssEntriesLoop(Head(feeds).entries, articles, max_total)
                        ELSE articles,
                        max_total)

fetch_rss(feeds, max_total) == fetch_rss_loop(feeds, <<>>, max_total)

\* the title of a NewsAPI article that has none
NoTitle == <<"<None>">>
Removed == <<"[", "R", "e", "m", "o", "v", "e", "d", "]">>

\* bot.py:138: the filter of the comprehension
NewsapiKeeps(a) ==
    /\ a.title # NoTitle
    /\ a.title # <<>>
    /\ ~Contains(Removed, a.title)

\* bot.py:135-136: description None or missing counts as ""
NewsapiArticle(a) ==
    [title   |-> Strip(a.title),
     link    |-> a.url,
     summary |-> Truncate(IF a.description < 0 THEN 0 ELSE a.description)]

RECURSIVE NewsapiFilter(_)
NewsapiFilter(as) ==
    IF as = <<>> THEN <<>>
    ELSE IF NewsapiKeeps(Head(as))
         THEN <<NewsapiArticle(Head(as))>> \o NewsapiFilter(Tail(as))
         ELSE NewsapiFilter(Tail(as))

\* bot.py:127-142: any failure of the request gives the empty list
fetch_newsapi(world, max_items) ==
    IF world.ok THEN NewsapiFilter(Take(world.articles, max_items)) ELSE <<>>

Titles(arts) == {arts[i].title : i \in 1..Len(arts)}

\* bot.py:150-153: the merge loop, seen being the titles of arts throughout
RECURSIVE MergeLoopMut(_, _, _)
MergeLoopMut(arts, seen, more) ==
    IF more = <<>> THEN arts
    ELSE IF Head(more).title \notin seen
         THEN MergeLoopMut(Append(arts, Head(more)), seen, Tail(more))
         ELSE MergeLoopMut(arts, seen, Tail(more))

RECURSIVE MergeLoop(_, _, _)
MergeLoop(arts, seen, more) ==
    IF more = <<>> THEN arts
    ELSE IF Head(more).title \notin seen
         THEN MergeLoop(Append(arts, Head(more)), seen \cup {Head(more).title}, Tail(more))
         ELSE MergeLoop(arts, seen, Tail(more))

\* bot.py:149: is the fallback consulted
NeedsFallbackMut(arts) == Len(arts) <= MinPrimary
NeedsFallback(arts) == Len(arts) < MinPrimary

\* bot.py:145-154: fetch_section, given what the sources hold; called tells
\* whether fetch_newsapi was called
fetch_section(feeds, world, count) ==
    LET arts == fetch_rss(feeds, count) IN
    IF NeedsFallback(arts)
    THEN [arts   |-> Take(MergeLoop(arts, Titles(arts), fetch_newsapi(world, count)), count),
          called |-> TRUE]
    ELSE [arts |-> Take(arts, count), called |-> FALSE]

-----------------------------------------------------------------------------
(* What the sources can hold *)

\* bounds of the stand-alone fetch: entries over both primary feeds together,
\* and articles the fallback search returns
MaxRssEntries == 3
MaxNewsapi == 2

\* feed entries: two with the same title after strip() and different links,
\* one with another title, one whose title is blank
EntryA1 == [title |-> <<"A">>, link |-> <<"1">>, summary |-> 10]
EntryA2 == [title |-> <<"A", " ">>, link |-> <<"2">>, summary |-> 401]
EntryB == [title |-> <<"B">>, link |-> <<"3">>, summary |-> 0]
EntryBlank == [title |-> <<" ">>, link |-> <<"4">>, summary |-> 0]

RssEntryUniverse == {EntryA1, EntryA2, EntryB, EntryBlank}

\* search results: description -1 stands for None
FoundA == [title |-> <<"A">>, url |-> <<"5">>, description |-> -1]
FoundC == [title |-> <<"C">>, url |-> <<"7">>, description |-> 500]
FoundRemoved == [title |-> Removed, url |-> <<"8">>, description |-> 0]

NewsapiUniverse == {FoundA, FoundC, FoundRemoved}

SeqsUpTo(S, n) == UNION {[1..k -> S] : k \in 0..n}

FailedFeed == [ok |-> FALSE, entries |-> <<>>]

\* the two feeds of a topic, holding at most budget entries together
FeedPairs(budget) ==
    UNION { { <<f1, f2>> :
                f2 \in {FailedFeed} \cup
                       {[ok |-> TRUE, entries |-> s] :
                            s \in SeqsUpTo(RssEntryUniverse, budget - Len(f1.entries))} } :
            f1 \in {FailedFeed} \cup
                   {[ok |-> TRUE, entries |-> s] : s \in SeqsUpTo(RssEntryUniverse, budget)} }

NewsapiWorlds(n) ==
    {[ok |-> FALSE, articles |-> <<>>]} \cup
    {[ok |-> TRUE, articles |-> s] : s \in SeqsUpTo(NewsapiUniverse, n)}

\* bot.py:294: the counts the count menu offers
Counts == {3, 4, 5, 6, 7, 8, 10}

-----------------------------------------------------------------------------
(* Schedule management: ist_to_utc, reschedule_jobs *)

DigitString == <<"0", "1", "2", "3", "4", "5", "6", "7", "8", "9">>
DigitValue(c) == (CHOOSE i \in 1..10 : DigitString[i] = c) - 1

\* int(s) of a string of digits
RECURSIVE ParseInt(_)
ParseInt(s) ==
    IF s = <<>> THEN 0
    ELSE 10 * ParseInt(SubSeq(s, 1, Len(s) - 1)) + DigitValue(s[Len(s)])

\* position of the ":" that split(":") cuts at
ColonAt(s) == CHOOSE i \in 1..Len(s) : s[i] = ":"

\* bot.py:417: IST is UTC+5:30
IstOffset == 330

\* bot.py:415-418 without the reduction modulo the minutes of a day
ist_to_utc_nowrap(ist_str) ==
    LET hh    == ParseInt(SubSeq(ist_str, 1, ColonAt(ist_str) - 1))
        mm    == ParseInt(SubSeq(ist_str, ColonAt(ist_str) + 1, Len(ist_str)))
        total == hh * 60 + mm - IstOffset
    IN  <<total \div 60, total % 60>>

\* bot.py:415-418: the time of day as <<hour, minute>>
ist_to_utc(ist_str) ==
    LET hh    == ParseInt(SubSeq(ist_str, 1, ColonAt(ist_str) - 1))
        mm    == ParseInt(SubSeq(ist_str, ColonAt(ist_str) + 1, Len(ist_str)))
        total == (hh * 60 + mm - IstOffset) % (24 * 60)
    IN  <<total \div 60, total % 60>>

JobName == "daily_digest"

DigestJobs(times) ==
    [i \in 1..Len(times) |-> [name |-> JobName, time |-> ist_to_utc(times[i])]]

\* bot.py:421-429 without the removal of the jobs registered before
reschedule_jobs_keep(js, times) == js \o DigestJobs(times)

\* bot.py:421-429: every job named daily_digest is removed, then one job is
\* registered per delivery time
reschedule_jobs(js, times) ==
    SelectSeq(js, LAMBDA j : j.name # JobName) \o DigestJobs(times)

\* the jobs of the slots in 'slots', in the order of the list
RECURSIVE JobsOfSlots(_, _, _)
JobsOfSlots(times, slots, i) ==
    IF i > Len(times) THEN <<>>
    ELSE (IF i \in slots THEN <<[name |-> JobName, time |-> ist_to_utc(times[i])]>>
          ELSE <<>>) \o JobsOfSlots(times, slots, i + 1)

\* bot.py:421-429 giving up at the first run_daily that raises
reschedule_jobs_abort(js, times, raises) ==
    SelectSeq(js, LAMBDA j : j.name # JobName)
        \o JobsOfSlots(times, {i \in 1..Len(times) : \A k \in 1..i : k \notin raises}, 1)

\* bot.py:421-429 when run_daily raises for the slots in 'raises': the
\* exception is logged (bot.py:428-429) and the loop goes on
reschedule_jobs_partial(js, times, raises) ==
    SelectSeq(js, LAMBDA j : j.name # JobName)
        \o JobsOfSlots(times, (1..Len(times)) \ raises, 1)

\* ^([01]?\d|2\d):([0-5]\d)$, which lets the hours 24 to 29 through
MatchesTimeLoose(t) ==
    \/ /\ Len(t) = 5
       /\ t[3] = ":"
       /\ t[1] \in {"0", "1", "2"}
       /\ t[2] \in Digits
       /\ t[4] \in {"0", "1", "2", "3", "4", "5"}
       /\ t[5] \in Digits
    \/ /\ Len(t) = 4
       /\ t[2] = ":"
       /\ t[1] \in Digits
       /\ t[3] \in {"0", "1", "2", "3", "4", "5"}
       /\ t[4] \in Digits

\* bot.py:569: ^([01]?\d|2[0-3]):([0-5]\d)$
MatchesTime(t) ==
    \/ /\ Len(t) = 5
       /\ t[3] = ":"
       /\ \/ t[1] \in {"0", "1"} /\ t[2] \in Digits
          \/ t[1] = "2" /\ t[2] \in {"0", "1", "2", "3"}
       /\ t[4] \in {"0", "1", "2", "3", "4", "5"}
       /\ t[5] \in Digits
    \/ /\ Len(t) = 4
       /\ t[2] = ":"
       /\ t[1] \in Digits
       /\ t[3] \in {"0", "1", "2", "3", "4", "5"}
       /\ t[4] \in Digits

-----------------------------------------------------------------------------
(* The stores *)

BuiltinKey == "geopolitics"

\* bot.py:36-45
BUILTIN_GEOPOLITICS ==
    [emoji     |-> "globe",
     label     |-> "GeoPolitics",
     newsapi_q |-> "geopolitics international relations world affairs",
     rss       |-> <<"reuters", "nytimes", "aljazeera">>]

Time0700 == <<"0", "7", ":", "0", "0">>
Time1800 == <<"1", "8", ":", "0", "0">>

EmptyDict == [k \in {} |-> <<>>]
DictSet(d, k, v) == (k :> v) @@ d
DictPop(d, k) == [x \in (DOMAIN d) \ {k} |-> d[x]]

\* is x an element of the list
InList(x, list) == \E i \in 1..Len(list) : list[i] = x

\* list.remove(x): the first occurrence goes
RemoveFirst(list, x) ==
    LET i == CHOOSE j \in 1..Len(list) : list[j] = x /\ \A k \in 1..(j - 1) : list[k] # x
    IN  SubSeq(list, 1, i - 1) \o SubSeq(list, i + 1, Len(list))

\* [k for k in list if k != x]
Without(list, x) == SelectSeq(list, LAMBDA k : k # x)

\* the tokens whose presence on a keyboard depends on the state when it was sent
NoButtons == [toggle |-> {}, delete |-> {}, ask |-> {}, edit |-> {}, times |-> {}]

NoMarkers == [pending_story |-> None, editing_time_idx |-> None, adding_topic |-> None]

\* what a handler did: the messages it sent, in order, the prompt it passed to
\* the language model if any with the message list of that call and how the
\* call ended, the topic key a topic callback named, and whether the handler
\* ended by raising
Sent(op, msgs) ==
    [op |-> op, sent |-> msgs, asked |-> None, raised |-> FALSE,
     context |-> <<>>, qa |-> "none", key |-> "", failed |-> {}]

RunIds == {1, 2}

IdleRun ==
    [pc |-> "idle", kind |-> "none", own |-> None, i |-> 0, key |-> "",
     arts |-> <<>>, count |-> 0, articles |-> <<>>, sent |-> <<>>]

\* the program's state as one value, for the handlers to transform
State ==
    [topics |-> topics, delivery_times |-> delivery_times,
     active_topics |-> active_topics, news_count |-> news_count,
     todays_digest |-> todays_digest,
     conversation_history |-> conversation_history, last_reply |-> last_reply,
     user_data |-> user_data, jobs |-> jobs, runs |-> runs, buttons |-> buttons,
     out |-> out]

Becomes(s) ==
    /\ topics' = s.topics
    /\ delivery_times' = s.delivery_times
    /\ active_topics' = s.active_topics
    /\ news_count' = s.news_count
    /\ todays_digest' = s.todays_digest
    /\ conversation_history' = s.conversation_history
    /\ last_reply' = s.last_reply
    /\ user_data' = s.user_data
    /\ jobs' = s.jobs
    /\ runs' = s.runs
    /\ buttons' = s.buttons
    /\ out' = s.out

\* bot.py:48-60 and post_init (bot.py:637-640), which derives the schedule
InitStores ==
    /\ topics = (BuiltinKey :> BUILTIN_GEOPOLITICS)
    /\ delivery_times = <<Time0700>>
    /\ active_topics = <<BuiltinKey>>
    /\ news_count = 5
    /\ todays_digest = EmptyDict
    /\ conversation_history = <<>>
    /\ last_reply = None
    /\ user_data = NoMarkers
    /\ jobs = reschedule_jobs(<<>>, <<Time0700>>)
    /\ runs = [r \in RunIds |-> IdleRun]
    /\ buttons = NoButtons
    /\ out = Sent("start", <<>>)

-----------------------------------------------------------------------------
(* Settings callbacks: handle_settings_callback *)

\* bot.py:261-272: the tokens on the times menu
times_menu_kb(s) ==
    [s.buttons EXCEPT
        !.edit  = @ \cup (IF Len(s.delivery_times) < 2 THEN {0} ELSE {0, 1}),
        !.times = @ \cup (IF Len(s.delivery_times) < 2 THEN {"add_time"}
                          ELSE {"remove_time"})]

\* bot.py:277-288: the tokens on the topics menu
topics_menu_kb(s) ==
    [s.buttons EXCEPT
        !.toggle = @ \cup DOMAIN s.topics,
        !.delete = @ \cup {k \in DOMAIN s.topics : InList(k, s.active_topics)}]

\* a digest run that is inside its loop over the list object that
\* settings["active_topics"] names keeps that object when the name is rebound
InLoop(run) == run.pc \in {"typing", "newsapi", "section"}

Detach(s) ==
    [r \in RunIds |->
        IF InLoop(s.runs[r]) /\ s.runs[r].own = None
        THEN [s.runs[r] EXCEPT !.own = Some(s.active_topics)]
        ELSE s.runs[r]]

\* bot.py:321-326 without the test of bot.py:322
add_time_unbounded(s) ==
    LET s1 == [s EXCEPT !.delivery_times = Append(@, Time1800)]
    IN  [s1 EXCEPT !.buttons = times_menu_kb(s1),
                   !.out = Sent("add_time", <<"times_menu">>)]

\* bot.py:321-326
add_time(s) ==
    LET s1 == IF Len(s.delivery_times) < 2
              THEN [s EXCEPT !.delivery_times = Append(@, Time1800)]
              ELSE s
    IN  [s1 EXCEPT !.buttons = times_menu_kb(s1),
                   !.out = Sent("add_time", <<"times_menu">>)]

\* bot.py:328-333
remove_time(s) ==
    LET s1 == IF Len(s.delivery_times) > 1
              THEN [s EXCEPT !.delivery_times = <<@[1]>> \o SubSeq(@, 3, Len(@))]
              ELSE s
    IN  [s1 EXCEPT !.buttons = times_menu_kb(s1),
                   !.out = Sent("remove_time", <<"times_menu">>)]

\* bot.py:335-343
edit_time(s, idx) ==
    [s EXCEPT !.user_data.editing_time_idx = Some(idx),
              !.out = Sent("edit_time", <<"type_time">>)]

\* bot.py:354-366 with the last active key removed before the alert
topic_toggle_eager(s, key) ==
    IF InList(key, s.active_topics) /\ Len(s.active_topics) <= 1
    THEN [s EXCEPT !.active_topics = RemoveFirst(@, key),
                   !.out = [Sent("topic_toggle", <<"alert_last_topic">>) EXCEPT !.key = key]]
    ELSE LET s1 == [s EXCEPT !.active_topics =
                        IF InList(key, @) THEN RemoveFirst(@, key) ELSE Append(@, key)]
         IN  [s1 EXCEPT !.buttons = topics_menu_kb(s1),
                        !.out = [Sent("topic_toggle", <<"topics_menu">>) EXCEPT !.key = key]]

\* bot.py:354-366
topic_toggle(s, key) ==
    IF InList(key, s.active_topics) /\ Len(s.active_topics) <= 1
    THEN [s EXCEPT !.out = [Sent("topic_toggle", <<"alert_last_topic">>) EXCEPT !.key = key]]
    ELSE LET s1 == [s EXCEPT !.active_topics =
                        IF InList(key, @) THEN RemoveFirst(@, key) ELSE Append(@, key)]
         IN  [s1 EXCEPT !.buttons = topics_menu_kb(s1),
                        !.out = [Sent("topic_toggle", <<"topics_menu">>) EXCEPT !.key = key]]

\* bot.py:368-381 without the rejection of the built-in key (bot.py:370-372)
topic_delete_unprotected(s, key) ==
    IF Len(s.active_topics) <= 1 /\ InList(key, s.active_topics)
    THEN [s EXCEPT !.out = [Sent("topic_delete", <<"alert_last_topic">>) EXCEPT !.key = key]]
    ELSE LET s1 == [s EXCEPT !.topics = DictPop(@, key),
                             !.active_topics = Without(@, key),
                             !.runs = Detach(s)]
         IN  [s1 EXCEPT !.buttons = topics_menu_kb(s1),
                        !.out = [Sent("topic_delete", <<"topics_menu">>) EXCEPT !.key = key]]

\* bot.py:368-381
topic_delete(s, key) ==
    IF key = BuiltinKey
    THEN [s EXCEPT !.out = [Sent("topic_delete", <<"alert_default_topic">>) EXCEPT !.key = key]]
    ELSE IF Len(s.active_topics) <= 1 /\ InList(key, s.active_topics)
    THEN [s EXCEPT !.out = [Sent("topic_delete", <<"alert_last_topic">>) EXCEPT !.key = key]]
    ELSE LET s1 == [s EXCEPT !.topics = DictPop(@, key),
                             !.active_topics = Without(@, key),
                             !.runs = Detach(s)]
         IN  [s1 EXCEPT !.buttons = topics_menu_kb(s1),
                        !.out = [Sent("topic_delete", <<"topics_menu">>) EXCEPT !.key = key]]

\* bot.py:383-396
topic_add_new(s) ==
    [s EXCEPT !.user_data.adding_topic = Some(TRUE),
              !.out = Sent("topic_add_new", <<"type_topic">>)]

\* bot.py:405-408
set_count(s, n) ==
    [s EXCEPT !.news_count = n, !.out = Sent("set_count", <<"settings">>)]

\* bot.py:302-408: the token is the callback data split at "|"
handle_settings_callback(s, data) ==
    IF data[1] = "set_times_menu"
    THEN [s EXCEPT !.buttons = times_menu_kb(s),
                   !.out = Sent("set_times_menu", <<"times_menu">>)]
    ELSE IF data[1] = "add_time" THEN add_time(s)
    ELSE IF data[1] = "remove_time" THEN remove_time(s)
    ELSE IF data[1] = "edit_time" THEN edit_time(s, data[2])
    ELSE IF data[1] = "set_topics_menu"
    THEN [s EXCEPT !.buttons = topics_menu_kb(s),
                   !.out = Sent("set_topics_menu", <<"topics_menu">>)]
    ELSE IF data[1] = "topic_toggle" THEN topic_toggle(s, data[2])
    ELSE IF data[1] = "topic_delete" THEN topic_delete(s, data[2])
    ELSE IF data[1] = "topic_add_new" THEN topic_add_new(s)
    ELSE IF data[1] = "set_count" THEN set_count(s, data[2])
    ELSE [s EXCEPT !.out = Sent(data[1], <<"menu">>)]

-----------------------------------------------------------------------------
(* Chat with the language model: ask_claude *)

\* bot.py:458: the number of most recent turns sent as context
HistoryWindow == 20

ReplyText == <<"o", "k">>
ApologyText == <<"s", "o", "r", "r", "y">>

\* the content of a turn: a text, and for a story follow-up the article it is
\* grounded in
Plain(text) == [grounding |-> None, text |-> text]

\* bot.py:593-598
Grounded(label, idx, article, text) ==
    [grounding |-> Some([label |-> label, number |-> idx + 1,
                         title |-> article.title, summary |-> article.summary]),
     text |-> text]

\* s[:n], the oldest entries instead of the latest
LastNFirst(list, n) == SubSeq(list, 1, Min(n, Len(list)))

\* s[-n:]
LastN(list, n) == SubSeq(list, Len(list) - Min(n, Len(list)) + 1, Len(list))

\* bot.py:451-465 with the user turn taken back when the call fails
ask_claude_forgets(s, message, qa_ok) ==
    LET h1   == Append(s.conversation_history, [role |-> "user", content |-> message])
        call == [Sent("message", <<>>) EXCEPT
                    !.asked = Some(message),
                    !.context = LastN(h1, HistoryWindow),
                    !.qa = IF qa_ok THEN "ok" ELSE "failed"]
    IN  IF qa_ok
        THEN [s     |-> [s EXCEPT !.conversation_history =
                            Append(h1, [role |-> "assistant", content |-> Plain(ReplyText)]),
                                  !.out = call],
              reply |-> ReplyText]
        ELSE [s     |-> [s EXCEPT !.out = call],
              reply |-> ApologyText]

\* bot.py:451-465: the state afterwards and the reply returned; qa_ok tells
\* whether the call to the language model succeeded
ask_claude(s, message, qa_ok) ==
    LET h1   == Append(s.conversation_history, [role |-> "user", content |-> message])
        call == [Sent("message", <<>>) EXCEPT
                    !.asked = Some(message),
                    !.context = LastN(h1, HistoryWindow),
                    !.qa = IF qa_ok THEN "ok" ELSE "failed"]
    IN  IF qa_ok
        THEN [s     |-> [s EXCEPT !.conversation_history =
                            Append(h1, [role |-> "assistant", content |-> Plain(ReplyText)]),
                                  !.out = call],
              reply |-> ReplyText]
        ELSE [s     |-> [s EXCEPT !.conversation_history = h1, !.out = call],
              reply |-> ApologyText]

\* bot.py:499-502
send_reply_with_audio_btn(s, op, message, reply) ==
    [s EXCEPT !.last_reply = Some(reply),
              !.out.op = op,
              !.out.sent = <<"reply">>]

-----------------------------------------------------------------------------
(* Free text: handle_message *)

\* bot.py:547-557 without the renaming of a colliding key (bot.py:549-550)
StoreTopicOverwrite(s, cfg) ==
    [s EXCEPT !.topics = DictSet(@, cfg.key,
                            [emoji |-> cfg.emoji, label |-> cfg.label,
                             newsapi_q |-> cfg.newsapi_q, rss |-> cfg.rss]),
              !.active_topics = Append(@, cfg.key)]

\* bot.py:547-557: the generated topic is stored and activated
StoreTopic(s, cfg) ==
    LET key == IF cfg.key \in DOMAIN s.topics THEN cfg.key \o "_2" ELSE cfg.key
    IN  [s EXCEPT !.topics = DictSet(@, key,
                                [emoji |-> cfg.emoji, label |-> cfg.label,
                                 newsapi_q |-> cfg.newsapi_q, rss |-> cfg.rss]),
                  !.active_topics = Append(@, key)]

\* bot.py:536-564: gen is what generate_topic_config returned
AddingTopic(s, gen) ==
    LET s1 == [s EXCEPT !.user_data.adding_topic = None] IN
    IF gen = None
    THEN [s1 EXCEPT !.out = Sent("message", <<"generating", "generation_failed">>)]
    ELSE [StoreTopic(s1, Val(gen)) EXCEPT
              !.out = Sent("message", <<"generating", "topic_added", "settings">>)]

\* bot.py:575-576
RECURSIVE PadTimes(_, _)
PadTimes(times, idx) ==
    IF Len(times) <= idx THEN PadTimes(Append(times, Time0700), idx) ELSE times

\* bot.py:567-583
EditingTime(s, user_text) ==
    LET editing == Val(s.user_data.editing_time_idx)
        s1      == [s EXCEPT !.user_data.editing_time_idx = None]
    IN  IF ~MatchesTime(user_text)
        THEN [s1 EXCEPT !.out = Sent("message", <<"format_error">>)]
        ELSE LET times == [PadTimes(s1.delivery_times, editing) EXCEPT ![editing + 1] = user_text]
             IN  [s1 EXCEPT !.delivery_times = times,
                            !.jobs = reschedule_jobs(s1.jobs, times),
                            !.out = Sent("message", <<"time_changed", "settings">>)]

\* bot.py:567-583 when run_daily raises for the slots in 'raises'
EditingTimePartial(s, user_text, raises) ==
    LET s2 == EditingTime(s, user_text) IN
    IF ~MatchesTime(user_text) THEN s2
    ELSE [s2 EXCEPT !.jobs = reschedule_jobs_partial(s.jobs, s2.delivery_times, raises),
                    !.out.failed = raises \cap (1..Len(s2.delivery_times))]

\* bot.py:590: the article looked up, None when the snapshot is empty;
\* the subscript raises IndexError when the list has no such index
LookupRaises(digest, key, idx) ==
    /\ DOMAIN digest # {}
    /\ \/ key \notin DOMAIN digest
       \/ idx >= Len(digest[key])

Lookup(digest, key, idx) ==
    IF DOMAIN digest = {} THEN None ELSE Some(digest[key][idx + 1])

\* bot.py:586-603
StoryFollowUp(s, user_text, qa_ok) ==
    LET pending == Val(s.user_data.pending_story)
        s1      == [s EXCEPT !.user_data.pending_story = None]
    IN  IF LookupRaises(s1.todays_digest, pending.section_key, pending.idx)
        THEN [s1 EXCEPT !.out = [Sent("message", <<>>) EXCEPT !.raised = TRUE]]
        ELSE LET article == Lookup(s1.todays_digest, pending.section_key, pending.idx)
                 label   == IF pending.section_key \in DOMAIN s1.topics
                            THEN s1.topics[pending.section_key].label ELSE ""
                 message == IF article # None
                            THEN Grounded(label, pending.idx, Val(article), user_text)
                            ELSE Plain(user_text)
                 asked   == ask_claude(s1, message, qa_ok)
             IN  send_reply_with_audio_btn(asked.s, "message", message, asked.reply)

\* bot.py:605-607
NormalQuestion(s, user_text, qa_ok) ==
    LET asked == ask_claude(s, Plain(user_text), qa_ok)
    IN  send_reply_with_audio_btn(asked.s, "message", Plain(user_text), asked.reply)

\* bot.py:526-607: the markers are tried in the order adding, editing, pending
handle_message(s, text, gen, qa_ok) ==
    LET user_text == Strip(text) IN
    IF s.user_data.adding_topic # None THEN AddingTopic(s, gen)
    ELSE IF s.user_data.editing_time_idx # None THEN EditingTime(s, user_text)
    ELSE IF s.user_data.pending_story # None THEN StoryFollowUp(s, user_text, qa_ok)
    ELSE NormalQuestion(s, user_text, qa_ok)

\* bot.py:610-626 reading todays_digest[section_key], whose KeyError the
\* except clause of bot.py:617 does not catch
handle_story_callback_strict(s, section_key, idx) ==
    IF section_key \notin DOMAIN s.todays_digest
    THEN [s EXCEPT !.out = [Sent("ask", <<>>) EXCEPT !.raised = TRUE]]
    ELSE IF idx < Len(s.todays_digest[section_key])
    THEN [s EXCEPT !.user_data.pending_story = Some([section_key |-> section_key, idx |-> idx]),
                   !.out = Sent("ask", <<"story_title">>)]
    ELSE [s EXCEPT !.out = Sent("ask", <<"story_not_found">>)]

\* bot.py:610-626
handle_story_callback(s, section_key, idx) ==
    IF section_key \in DOMAIN s.todays_digest /\ idx < Len(s.todays_digest[section_key])
    THEN [s EXCEPT !.user_data.pending_story = Some([section_key |-> section_key, idx |-> idx]),
                   !.out = Sent("ask", <<"story_title">>)]
    ELSE [s EXCEPT !.out = Sent("ask", <<"story_not_found">>)]

\* bot.py:494-496
cmd_clear(s) ==
    [s EXCEPT !.conversation_history = <<>>, !.out = Sent("clear", <<"cleared">>)]

-----------------------------------------------------------------------------
(* Digest run: send_digest, one step per stretch between two awaits *)

\* the list object the run's for loop iterates
LoopList(s, r) ==
    IF s.runs[r].own = None THEN s.active_topics ELSE Val(s.runs[r].own)

\* bot.py:206-208: the iterator advances past the keys that are not topics
RECURSIVE Scan(_, _, _)
Scan(list, i, registry) ==
    IF i >= Len(list) THEN [found |-> FALSE, i |-> i, key |-> ""]
    ELSE IF list[i + 1] \in DOMAIN registry
         THEN [found |-> TRUE, i |-> i + 1, key |-> list[i + 1]]
         ELSE Scan(list, i + 1, registry)

\* bot.py:206-209 and 220: up to the await of the typing action, or of the
\* footer when the list is exhausted
loop_next(s, r) ==
    LET sc == Scan(LoopList(s, r), s.runs[r].i, s.topics) IN
    [s EXCEPT !.runs[r].i = sc.i,
              !.runs[r].key = sc.key,
              !.runs[r].pc = IF sc.found THEN "typing" ELSE "footer"]

\* bot.py:197-204 (and 489-491 for /digest): up to the await of the header
start_digest(s, r, kind) ==
    LET s1 == [s EXCEPT !.runs[r] = [IdleRun EXCEPT !.pc = "header", !.kind = kind]]
    IN  IF kind = "manual" THEN [s1 EXCEPT !.out = Sent("digest", <<"fetching">>)] ELSE s1

\* bot.py:206-209 without the assignment of bot.py:205
after_header_keep(s, r) ==
    loop_next([s EXCEPT !.runs[r].sent = Append(@, [kind |-> "header", key |-> ""])], r)

\* bot.py:205-209
after_header(s, r) ==
    loop_next([s EXCEPT !.todays_digest = EmptyDict,
                        !.runs[r].sent = Append(@, [kind |-> "header", key |-> ""])], r)

Crash(s, r) == [s EXCEPT !.runs[r].pc = "crashed"]

AskButtons(key, articles) == {<<key, i>> : i \in 0..(Len(articles) - 1)}

\* bot.py:211-219 with the write-back keeping an entry the snapshot already has
write_first_and_send(s, r, articles) ==
    LET key == s.runs[r].key
        s1  == [s EXCEPT !.todays_digest = IF key \in DOMAIN @ THEN @
                                           ELSE DictSet(@, key, articles),
                         !.runs[r].articles = articles]
    IN  IF key \notin DOMAIN s1.topics THEN Crash(s1, r)
        ELSE [s1 EXCEPT
                 !.runs[r].pc = "section",
                 !.runs[r].sent = Append(@, [kind |-> IF articles = <<>> THEN "placeholder"
                                                      ELSE "section",
                                             key  |-> key]),
                 !.buttons.ask = @ \cup AskButtons(key, articles)]

\* bot.py:211-219: the write-back, then the placeholder or the section; both
\* look the topic up again
write_and_send(s, r, articles) ==
    LET key == s.runs[r].key
        s1  == [s EXCEPT !.todays_digest = DictSet(@, key, articles),
                         !.runs[r].articles = articles]
    IN  IF key \notin DOMAIN s1.topics THEN Crash(s1, r)
        ELSE [s1 EXCEPT
                 !.runs[r].pc = "section",
                 !.runs[r].sent = Append(@, [kind |-> IF articles = <<>> THEN "placeholder"
                                                      ELSE "section",
                                             key  |-> key]),
                 !.buttons.ask = @ \cup AskButtons(key, articles)]

\* bot.py:210 with 146-149, the primary articles stored in the snapshot before
\* the search is awaited
after_typing_early(s, r, feeds) ==
    LET key == s.runs[r].key IN
    IF key \notin DOMAIN s.topics THEN Crash(s, r)
    ELSE LET count == s.news_count
             arts  == fetch_rss(feeds, count)
         IN  IF NeedsFallback(arts)
             THEN [s EXCEPT !.runs[r].pc = "newsapi",
                            !.runs[r].arts = arts,
                            !.runs[r].count = count,
                            !.todays_digest = DictSet(@, key, arts)]
             ELSE write_and_send(s, r, Take(arts, count))

\* bot.py:210 with 146-149: feeds is what the topic's feeds hold now
after_typing(s, r, feeds) ==
    LET key == s.runs[r].key IN
    IF key \notin DOMAIN s.topics THEN Crash(s, r)
    ELSE LET count == s.news_count
             arts  == fetch_rss(feeds, count)
         IN  IF NeedsFallback(arts)
             THEN [s EXCEPT !.runs[r].pc = "newsapi",
                            !.runs[r].arts = arts,
                            !.runs[r].count = count]
             ELSE write_and_send(s, r, Take(arts, count))

\* bot.py:150-154 then 211-219: world is what the search returns
after_newsapi(s, r, world) ==
    LET run == s.runs[r] IN
    write_and_send([s EXCEPT !.runs[r].arts = <<>>, !.runs[r].count = 0], r,
                   Take(MergeLoop(run.arts, Titles(run.arts),
                                  fetch_newsapi(world, run.count)), run.count))

\* bot.py:206-209, the next iteration
after_section(s, r) == loop_next(s, r)

\* bot.py:220-221
after_footer(s, r) ==
    [s EXCEPT !.runs[r].pc = "done",
              !.runs[r].sent = Append(@, [kind |-> "footer", key |-> ""])]

-----------------------------------------------------------------------------
(* Inputs of the handlers *)

\* bounds: turns kept in the history, entries of settings["active_topics"]
MaxHistory == 2
MaxActive == 4

\* free text as typed
TextTime == <<" ", "0", "6", ":", "3", "0">>
TextWhy == <<"w", "h", "y", "?">>
UserTexts == {TextTime, TextWhy}

\* what generate_topic_config (bot.py:67-102) can return: None, or a config
GenCricket ==
    [key |-> "cricket", label |-> "Cricket", emoji |-> "bat",
     newsapi_q |-> "cricket news", rss |-> <<"espn", "bbc">>]
\* another config the generator gives the same key
GenCricketLive == [GenCricket EXCEPT !.label = "Cricket Live", !.rss = <<"cricinfo">>]
GenResults == {None, Some(GenCricket), Some(GenCricketLive)}
\* a config to which the generator gives the key of the built-in topic
GenGeopolitics ==
    [key |-> BuiltinKey, label |-> "World Politics", emoji |-> "scales",
     newsapi_q |-> "world politics diplomacy", rss |-> <<"bbc">>]

\* what the sources hold when a digest run fetches: the first feed of the topic
\* fails or holds three entries, the others fail; the search fails or finds one
RunFeedWorlds(n) ==
    {[i \in 1..n |-> IF i = 1 THEN f ELSE FailedFeed] :
        f \in {FailedFeed, [ok |-> TRUE, entries |-> <<EntryA1, EntryB, EntryA2>>]}}
RunNewsapiWorlds ==
    {[ok |-> FALSE, articles |-> <<>>], [ok |-> TRUE, articles |-> <<FoundC>>]}

-----------------------------------------------------------------------------
(* Actions *)

Running(run) == run.pc \in {"header", "typing", "newsapi", "section", "footer"}

\* updates are processed one at a time: while the /digest handler awaits its
\* run no other handler starts
HandlersFree == \A r \in RunIds : ~(Running(runs[r]) /\ runs[r].kind = "manual")

Bounded(s) ==
    /\ Len(s.conversation_history) <= MaxHistory
    /\ Len(s.active_topics) <= MaxActive

Handler(s) == HandlersFree /\ Bounded(s) /\ Becomes(s)

Worlds == <<rss_world, newsapi_world, fetch_out>>

SettingsCallback(data) ==
    /\ Handler(handle_settings_callback(State, data))
    /\ UNCHANGED Worlds

TimesMenu == SettingsCallback(<<"set_times_menu">>)
AddTime == "add_time" \in buttons.times /\ SettingsCallback(<<"add_time">>)
RemoveTime == "remove_time" \in buttons.times /\ SettingsCallback(<<"remove_time">>)
EditTime == \E idx \in buttons.edit : SettingsCallback(<<"edit_time", idx>>)
TopicsMenu == SettingsCallback(<<"set_topics_menu">>)
TopicToggle == \E key \in buttons.toggle : SettingsCallback(<<"topic_toggle", key>>)
TopicDelete == \E key \in buttons.delete : SettingsCallback(<<"topic_delete", key>>)
TopicAddNew == buttons.toggle # {} /\ SettingsCallback(<<"topic_add_new">>)
SetCount == \E n \in Counts : SettingsCallback(<<"set_count", n>>)

MessageOf(texts, gens) ==
    \E text \in texts, gen \in gens, qa_ok \in BOOLEAN :
        /\ Handler(handle_message(State, text, gen, qa_ok))
        /\ UNCHANGED Worlds

\* any free text, whatever the topic generator returns
Message == MessageOf(UserTexts, GenResults)

\* a question typed while the topic generator is unavailable
Question == MessageOf({TextWhy}, {None})

StoryCallback ==
    \E token \in buttons.ask :
        /\ Handler(handle_story_callback(State, token[1], token[2]))
        /\ UNCHANGED Worlds

Clear == Handler(cmd_clear(State)) /\ UNCHANGED Worlds

Free(run) == ~Running(run)

\* scheduled_digest (bot.py:633-634), fired by a registered job
StartScheduled(r) ==
    /\ Free(runs[r])
    /\ \E i \in 1..Len(jobs) : jobs[i].name = JobName
    /\ Becomes(start_digest(State, r, "scheduled"))
    /\ UNCHANGED Worlds

\* cmd_digest (bot.py:489-491)
StartManual(r) ==
    /\ Free(runs[r])
    /\ Handler(start_digest(State, r, "manual"))
    /\ UNCHANGED Worlds

RssLen(s, key) == IF key \in DOMAIN s.topics THEN Len(s.topics[key].rss) ELSE 0

DigestStep(r) ==
    /\ \/ runs[r].pc = "header" /\ Becomes(after_header(State, r))
       \/ /\ runs[r].pc = "typing"
          /\ \E feeds \in RunFeedWorlds(RssLen(State, runs[r].key)) :
                Becomes(after_typing(State, r, feeds))
       \/ /\ runs[r].pc = "newsapi"
          /\ \E world \in RunNewsapiWorlds : Becomes(after_newsapi(State, r, world))
       \/ runs[r].pc = "section" /\ Becomes(after_section(State, r))
       \/ runs[r].pc = "footer" /\ Becomes(after_footer(State, r))
    /\ UNCHANGED Worlds

Digest(r) == StartScheduled(r) \/ StartManual(r) \/ DigestStep(r)

\* fetch_section on its own, for a topic whose sources hold the worlds
FetchSection ==
    /\ fetch_out = None
    /\ fetch_out' = Some(fetch_section(rss_world, newsapi_world, news_count))
    /\ UNCHANGED <<topics, delivery_times, active_topics, news_count, todays_digest,
                   conversation_history, last_reply, user_data, jobs, runs, buttons,
                   out, rss_world, newsapi_world>>

-----------------------------------------------------------------------------
(* Specifications *)

NoWorlds ==
    /\ rss_world = <<>>
    /\ newsapi_world = [ok |-> FALSE, articles |-> <<>>]
    /\ fetch_out = None

Init == InitStores /\ NoWorlds

\* the conversation: story buttons, the two settings markers, questions and
\* one digest run at a time over the built-in topic
Next ==
    \/ TimesMenu \/ EditTime
    \/ TopicsMenu \/ TopicAddNew
    \/ StoryCallback
    \/ Question
    \/ Clear
    \/ Digest(1)

Spec == Init /\ [][Next]_vars

\* the topic registry and the active set
NextTopics == TopicsMenu \/ TopicToggle \/ TopicDelete \/ TopicAddNew \/ Message

SpecTopics == Init /\ [][NextTopics]_vars

\* the delivery times, the schedule and the section size
NextSched == TimesMenu \/ AddTime \/ RemoveTime \/ EditTime \/ SetCount \/ Message

SpecSched == Init /\ [][NextSched]_vars

\* the one delivery time edited from its start-up value to every time of day
\* the pattern of bot.py:569 accepts in its two-digit form, and back
TimeText(hh, mm) ==
    <<DigitString[(hh \div 10) + 1], DigitString[(hh % 10) + 1], ":",
      DigitString[(mm \div 10) + 1], DigitString[(mm % 10) + 1]>>

ClockTexts == {TimeText(hh, mm) : hh \in 0..23, mm \in 0..59}

NewTime ==
    /\ user_data.editing_time_idx # None
    /\ MessageOf(IF delivery_times = <<Time0700>> THEN ClockTexts ELSE {Time0700},
                 {None})

NextClock == TimesMenu \/ EditTime \/ NewTime

SpecClock == Init /\ [][NextClock]_vars

\* the schedule when registrations may raise
NewTimePartial ==
    /\ user_data.editing_time_idx # None
    /\ \E text \in UserTexts \cup {Time0700}, raises \in SUBSET {1, 2} :
           /\ Handler(EditingTimePartial(State, Strip(text), raises))
           /\ UNCHANGED Worlds

NextPartial == TimesMenu \/ AddTime \/ RemoveTime \/ EditTime \/ NewTimePartial

SpecPartial == Init /\ [][NextPartial]_vars

\* texts a user may type while a time is edited
TimeProbes ==
    {TextTime, TextWhy, Time0700, Time1800,
     <<"0", "6", ":", "3", "0", " ">>,
     <<"7", ":", "0", "5">>,
     <<"2", "3", ":", "5", "9">>,
     <<"2", "4", ":", "0", "0">>,
     <<"2", "9", ":", "3", "0">>,
     <<"0", "6", ":", "6", "0">>,
     <<"0", "6", ":", "3">>,
     <<"0", "6", "3", "0">>,
     <<"0", "6", ":", "3", "0", "x">>,
     <<"1", "0", "6", ":", "3", "0">>,
     <<"0", "6", ".", "3", "0">>,
     <<":", "3", "0">>,
     <<>>}

\* the delivery times with any of these texts typed into either slot
TypedTime ==
    /\ user_data.editing_time_idx # None
    /\ MessageOf(TimeProbes, {None})

NextShape == TimesMenu \/ AddTime \/ RemoveTime \/ EditTime \/ TypedTime

SpecShape == Init /\ [][NextShape]_vars

\* bound: topics in the registry while a digest run is followed
MaxRunTopics == 2

\* a topic name typed while the bot waits for one
TopicName ==
    /\ user_data.adding_topic # None
    /\ Cardinality(DOMAIN topics) < MaxRunTopics
    /\ Message

\* a digest run while topics are added and deleted
NextRun == TopicsMenu \/ TopicAddNew \/ TopicName \/ TopicDelete \/ Digest(1)

SpecRun == Init /\ [][NextRun]_vars

\* the topic buttons pressed around a digest run, with the built-in topic only
NextReject ==
    TopicsMenu \/ TopicToggle \/ TopicDelete \/ TopicAddNew \/ StoryCallback \/ Digest(1)

SpecReject == Init /\ [][NextReject]_vars

\* two digest runs interleaving at their awaits, the topics being set up
\* before the first run starts and left alone afterwards
NoRunYet == \A r \in RunIds : runs[r].pc = "idle"

SetUpTopics == NoRunYet /\ (TopicsMenu \/ TopicAddNew \/ TopicName)

NextTwoRuns == SetUpTopics \/ Digest(1) \/ Digest(2)

SpecTwoRuns == Init /\ [][NextTwoRuns]_vars

\* the built-in topic toggled while a digest run goes over the topics set up
\* before it
ToggleBuiltin ==
    /\ BuiltinKey \in buttons.toggle
    /\ SettingsCallback(<<"topic_toggle", BuiltinKey>>)

NextToggle == SetUpTopics \/ ToggleBuiltin \/ Digest(1)

SpecToggle == Init /\ [][NextToggle]_vars

\* topics added, toggled and deleted, the generator returning the key of the
\* built-in topic or another one
CollidingName ==
    /\ user_data.adding_topic # None
    /\ MessageOf({TextWhy}, {Some(GenGeopolitics), Some(GenCricket)})

NextBuiltin == TopicsMenu \/ TopicToggle \/ TopicDelete \/ TopicAddNew \/ CollidingName

SpecBuiltin == Init /\ [][NextBuiltin]_vars

\* bound: entries of the chat's history while the window is followed
MaxChatTurns == 22

\* a question typed with no marker set, the history growing past the window
Chat ==
    \E qa_ok \in BOOLEAN :
        LET s == handle_message(State, TextWhy, None, qa_ok) IN
        /\ HandlersFree
        /\ Len(s.conversation_history) <= MaxChatTurns
        /\ Becomes(s)
        /\ UNCHANGED Worlds

\* questions and /clear
NextChat == Chat \/ Clear

SpecChat == Init /\ [][NextChat]_vars

\* fetch_section over every content of the sources and every count
InitFetch ==
    /\ topics = (BuiltinKey :> BUILTIN_GEOPOLITICS)
    /\ delivery_times = <<Time0700>>
    /\ active_topics = <<BuiltinKey>>
    /\ news_count \in Counts
    /\ todays_digest = EmptyDict
    /\ conversation_history = <<>>
    /\ last_reply = None
    /\ user_data = NoMarkers
    /\ jobs = reschedule_jobs(<<>>, <<Time0700>>)
    /\ runs = [r \in RunIds |-> IdleRun]
    /\ buttons = NoButtons
    /\ out = Sent("start", <<>>)
    /\ rss_world \in FeedPairs(MaxRssEntries)
    /\ newsapi_world \in NewsapiWorlds(MaxNewsapi)
    /\ fetch_out = None

SpecFetch == InitFetch /\ [][FetchSection]_vars

-----------------------------------------------------------------------------
(* The fetch pipeline (SpecFetch) *)

Fetched == fetch_out # None
Result == Val(fetch_out).arts
FallbackCalled == Val(fetch_out).called

\* what the primary feeds yield for the current count, and what the search yields
Primary == fetch_rss(rss_world, news_count)
Fallback == fetch_newsapi(newsapi_world, news_count)

\* C6: fetch_section returns at most news_count articles, and no two of the
\* returned articles have equal titles, whatever the feeds and the search hold
FetchBoundedAndUnique ==
    Fetched =>
        /\ Len(Result) <= news_count
        /\ \A i, j \in 1..Len(Result) : i # j => Result[i].title # Result[j].title

\* an entry the code accepts: title and link non-empty once stripped
ValidEntry(e) == Strip(e.title) # <<>> /\ Strip(e.link) # <<>>

RECURSIVE ValidEntries(_)
ValidEntries(feeds) ==
    IF feeds = <<>> THEN 0
    ELSE (IF Head(feeds).ok
          THEN Len(SelectSeq(Head(feeds).entries, ValidEntry))
          ELSE 0) + ValidEntries(Tail(feeds))

\* C7: when the primary feeds hold at least three valid entries, fetch_section
\* does not call fetch_newsapi, for every count the count menu offers
FallbackSkipped ==
    (Fetched /\ ValidEntries(rss_world) >= 3) => ~FallbackCalled

FallbackSkippedWitness ==
    /\ Fetched
    /\ ValidEntries(rss_world) >= 3
    /\ newsapi_world.ok /\ newsapi_world.articles # <<>>
    /\ ~FallbackCalled
    /\ Len(Result) = 3

\* the first occurrence of every title of a list, in the order of the list
RECURSIVE FirstOccurrences(_, _)
FirstOccurrences(list, seen) ==
    IF list = <<>> THEN <<>>
    ELSE IF Head(list).title \in seen
         THEN FirstOccurrences(Tail(list), seen)
         ELSE <<Head(list)>> \o FirstOccurrences(Tail(list), seen \cup {Head(list).title})

\* C8: the result is the primary articles in source order followed by the
\* fallback articles in fallback order, each title kept at its first occurrence
\* only, cut at news_count
FirstOccurrenceWins ==
    Fetched =>
        Result = Take(FirstOccurrences(Primary \o (IF FallbackCalled THEN Fallback ELSE <<>>),
                                       {}),
                      news_count)

\* the fallback articles whose title an earlier article of the merge has
Duplicates ==
    {j \in 1..Len(Fallback) :
        Fallback[j].title \in Titles(Primary) \cup {Fallback[k].title : k \in 1..(j - 1)}}

\* C9: when the primary feeds yield p < 3 articles and the search f articles
\* of which d repeat an earlier title, the result has min(news_count, p + f - d)
\* articles
MergeCount ==
    (Fetched /\ Len(Primary) < 3) =>
        Len(Result) = Min(news_count, Len(Primary) + Len(Fallback) - Cardinality(Duplicates))

MergeCountWitness ==
    /\ Fetched
    /\ Len(Primary) = 2
    /\ Len(Fallback) = 2
    /\ Cardinality(Duplicates) = 1
    /\ Len(Result) = 3

-----------------------------------------------------------------------------
(* The schedule (SpecSched) *)

\* C3: after every change of delivery_times the registered daily_digest jobs
\* are exactly one per delivery time, at that time converted by ist_to_utc
TriggersTrackTimes ==
    [][delivery_times' # delivery_times => jobs' = DigestJobs(delivery_times')]_vars

\* C10: with delivery_times unchanged, reschedule_jobs called twice leaves the
\* same jobs as reschedule_jobs called once
RederiveIdempotent ==
    reschedule_jobs(reschedule_jobs(jobs, delivery_times), delivery_times)
        = reschedule_jobs(jobs, delivery_times)

\* the schedule is out of date, so that the first call changes it
RederiveIdempotentWitness ==
    /\ Len(delivery_times) = 2
    /\ Len(jobs) = 1
    /\ Len(reschedule_jobs(jobs, delivery_times)) = 2
    /\ Len(reschedule_jobs(reschedule_jobs(jobs, delivery_times), delivery_times)) = 2

-----------------------------------------------------------------------------
(* The topics (SpecTopics) *)

\* C2: settings["active_topics"] holds at least one key after any sequence of
\* topic_toggle, topic_delete and topic additions
ActiveNeverEmpty == active_topics # <<>>

-----------------------------------------------------------------------------
(* The conversation (Spec) *)

MarkersSet ==
    {m \in {"pending_story", "editing_time_idx", "adding_topic"} : user_data[m] # None}

\* C1: at most one of pending_story, editing_time_idx and adding_topic is set
AtMostOneMarker == Cardinality(MarkersSet) <= 1

\* a step of handle_message: handlers leave the digest runs alone, and
\* handle_message alone reports as "message"
MessageStep == out'.op = "message" /\ runs' = runs

PendingKey == Val(user_data.pending_story).section_key
PendingIdx == Val(user_data.pending_story).idx

\* the snapshot holds articles but none at the pending reference
PendingIsStale ==
    /\ user_data.pending_story # None
    /\ DOMAIN todays_digest # {}
    /\ \/ PendingKey \notin DOMAIN todays_digest
       \/ PendingIdx >= Len(todays_digest[PendingKey])

PendingIsPresent ==
    /\ user_data.pending_story # None
    /\ PendingKey \in DOMAIN todays_digest
    /\ PendingIdx < Len(todays_digest[PendingKey])

\* C4: a free text that arrives for a pending story the snapshot no longer has
\* is forwarded ungrounded to the language model and answered; the handler
\* does not raise
StaleReferenceDegrades ==
    [][(/\ PendingIsStale
        /\ user_data.adding_topic = None
        /\ user_data.editing_time_idx = None
        /\ MessageStep)
       => (/\ ~out'.raised
           /\ out'.sent = <<"reply">>
           /\ out'.asked # None
           /\ Val(out'.asked).grounding = None)]_vars

\* C5: the free text that follows a story button, whatever the session state
\* was, is forwarded grounded in the title and summary of that article of the
\* snapshot, and pending_story is unset afterwards
StoryThenQuestion ==
    [][(PendingIsPresent /\ MessageStep)
       => (/\ user_data'.pending_story = None
           /\ out'.asked # None
           /\ Val(out'.asked).grounding # None
           /\ Val(Val(out'.asked).grounding).title
                  = todays_digest[PendingKey][PendingIdx + 1].title
           /\ Val(Val(out'.asked).grounding).summary
                  = todays_digest[PendingKey][PendingIdx + 1].summary)]_vars

-----------------------------------------------------------------------------
(* Editing a delivery time (SpecSched) *)

\* the registered daily_digest jobs at a time of day
JobsAt(js, t) == Len(SelectSeq(js, LAMBDA j : j.name = JobName /\ j.time = t))

EditedSlot == Val(user_data.editing_time_idx) + 1

\* a step of handle_message that stored a valid time in the slot being edited
TimeEditStep ==
    /\ user_data.adding_topic = None
    /\ user_data.editing_time_idx # None
    /\ out'.op = "message"
    /\ out'.sent = <<"time_changed", "settings">>

\* C11: after a valid edit that changes a slot from t_old to t_new, t_old not
\* being the time of the other slot, exactly one daily_digest job is registered
\* at ist_to_utc(t_new) and none at ist_to_utc(t_old)
EditReplacesTrigger ==
    [][(/\ TimeEditStep
        /\ EditedSlot <= Len(delivery_times)
        /\ delivery_times'[EditedSlot] # delivery_times[EditedSlot]
        /\ \A i \in 1..Len(delivery_times') :
              i # EditedSlot => delivery_times'[i] # delivery_times[EditedSlot])
       => (/\ JobsAt(jobs', ist_to_utc(delivery_times'[EditedSlot])) = 1
           /\ JobsAt(jobs', ist_to_utc(delivery_times[EditedSlot])) = 0)]_vars

-----------------------------------------------------------------------------
(* The digest run (SpecRun) *)

\* the run r leaves the fetch of its topic with an empty list written to the
\* snapshot under the topic's key
EmptyRecorded(r) ==
    /\ runs[r].pc \in {"typing", "newsapi"}
    /\ runs'[r].pc \notin {"typing", "newsapi"}
    /\ runs[r].key \notin DOMAIN todays_digest
    /\ runs[r].key \in DOMAIN todays_digest'
    /\ todays_digest'[runs[r].key] = <<>>

\* C12: a run whose topic yields no article records the empty list, sends the
\* placeholder of that topic and goes on with the loop
EmptyTopicContinues ==
    [][\A r \in RunIds :
          EmptyRecorded(r) =>
              /\ runs'[r].pc = "section"
              /\ runs'[r].sent =
                     Append(runs[r].sent, [kind |-> "placeholder", key |-> runs[r].key])]_vars

\* C13: no started run ends without its footer: a run is never ended by the
\* KeyError of a lookup topics[key]
RunNeverAborts == \A r \in RunIds : runs[r].pc # "crashed"

-----------------------------------------------------------------------------
(* The history window (SpecChat) *)

\* the history once the user turn of this call is appended
WithUserTurn ==
    Append(conversation_history, [role |-> "user", content |-> Val(out'.asked)])

\* C14: the message list of every call to the language model is the last
\* min(20, n) entries of the history, n counting the user turn just appended,
\* and after a successful call the history ends with that user turn and the
\* reply
HistoryWindowSent ==
    [][(out'.op = "message" /\ out'.asked # None)
       => LET n == Len(WithUserTurn)
              k == Min(20, n)
          IN  /\ Len(out'.context) = k
              /\ \A i \in 1..k : out'.context[i] = WithUserTurn[n - k + i]
              /\ out'.qa = "ok" =>
                    conversation_history' =
                        Append(WithUserTurn,
                               [role |-> "assistant", content |-> Plain(ReplyText)])]_vars

HistoryWindowSentWitness ==
    /\ out.op = "message"
    /\ out.qa = "ok"
    /\ Len(conversation_history) = 22
    /\ Len(out.context) = 20
    /\ out.context[20] = conversation_history[21]

-----------------------------------------------------------------------------
(* Adding a topic (SpecTopics) *)

\* a step of handle_message that stored a generated topic
TopicAddedStep ==
    /\ user_data.adding_topic # None
    /\ out'.op = "message"
    /\ out'.sent = <<"generating", "topic_added", "settings">>

\* C15: storing a generated topic leaves every entry the registry had in
\* place and unchanged, and the registry has exactly one entry more
AddNeverOverwrites ==
    [][TopicAddedStep
       => (/\ \A k \in DOMAIN topics : k \in DOMAIN topics' /\ topics'[k] = topics[k]
           /\ Cardinality(DOMAIN topics') = Cardinality(DOMAIN topics) + 1)]_vars

-----------------------------------------------------------------------------
(* Invalid input while a time is edited (SpecSched) *)

\* C16: a free text that is not a time, typed while slot s is edited, is
\* answered with the format error and leaves editing_time_idx = s, so that the
\* next free text is again taken as the time of slot s
InvalidTimeKeepsMode ==
    [][(/\ user_data.adding_topic = None
        /\ user_data.editing_time_idx # None
        /\ out'.op = "message"
        /\ out'.sent # <<"time_changed", "settings">>)
       => (/\ out'.sent = <<"format_error">>
           /\ user_data'.editing_time_idx = user_data.editing_time_idx)]_vars

-----------------------------------------------------------------------------
(* Active keys and the registry (SpecTopics) *)

\* C17: every key in settings["active_topics"] is a key of topics
ActiveKeysExist ==
    \A i \in 1..Len(active_topics) : active_topics[i] \in DOMAIN topics

-----------------------------------------------------------------------------
\* C18: the conversion wraps past midnight: for every hh in 0..23 and mm in
\* 0..59 the trigger registered for the delivery time "hh:mm" is the time of
\* day (hh*60 + mm - 330) mod 1440, its hour is in 0..23 and its minute in
\* 0..59, and adding 330 minutes mod 1440 to it gives back hh:mm
ClockWraps ==
    \A i \in 1..Len(delivery_times) : \A hh \in 0..23, mm \in 0..59 :
        delivery_times[i] = TimeText(hh, mm)
        => LET utc == jobs[i].time
               expected == (hh * 60 + mm - 330) % 1440
           IN  /\ utc = ist_to_utc(delivery_times[i])
               /\ utc = <<expected \div 60, expected % 60>>
               /\ utc[1] \in 0..23
               /\ utc[2] \in 0..59
               /\ (utc[1] * 60 + utc[2] + 330) % 1440 = hh * 60 + mm

\* 03:00 is delivered at 21:30 of the day before
ClockWrapsWitness ==
    /\ out.op = "message"
    /\ out.sent = <<"time_changed", "settings">>
    /\ delivery_times = <<TimeText(3, 0)>>
    /\ jobs = <<[name |-> JobName, time |-> <<21, 30>>]>>

-----------------------------------------------------------------------------
\* C19 as stated: topic_delete of the built-in topic "geopolitics" is rejected
\* if no other active topic would remain, and otherwise removes the key from
\* the registry and from active_topics
OtherActiveRemains == \E i \in 1..Len(active_topics) : active_topics[i] # BuiltinKey

BuiltinDeleteStep == out'.op = "topic_delete" /\ out'.key = BuiltinKey

BuiltinRemovedWhenOthersRemain ==
    [][BuiltinDeleteStep
       => IF OtherActiveRemains
          THEN /\ BuiltinKey \notin DOMAIN topics'
               /\ ~InList(BuiltinKey, active_topics')
          ELSE /\ topics' = topics
               /\ active_topics' = active_topics]_vars

\* C19: topic_delete of the built-in topic "geopolitics" is always rejected
\* with the alert of bot.py:371, whether or not another active topic remains:
\* the registry and active_topics are left as they were
BuiltinNeverRemoved ==
    [][BuiltinDeleteStep
       => /\ out'.sent = <<"alert_default_topic">>
          /\ topics' = topics
          /\ active_topics' = active_topics]_vars

\* the delete of "geopolitics" was rejected while another topic is active
BuiltinNeverRemovedWitness ==
    /\ out.op = "topic_delete"
    /\ out.key = BuiltinKey
    /\ out.sent = <<"alert_default_topic">>
    /\ OtherActiveRemains
    /\ InList(BuiltinKey, active_topics)
    /\ BuiltinKey \in DOMAIN topics

-----------------------------------------------------------------------------
\* C20: a failure of the language-model call inside ask_claude is swallowed:
\* the handler does not raise and replies with the fixed apology, the history
\* has gained exactly the user turn of this attempt and no assistant turn, and
\* the pending markers are those a successful call would have left
QaFailedStep == MessageStep /\ out'.qa = "failed"

QaFailureSwallowed ==
    [][QaFailedStep
       => /\ ~out'.raised
          /\ out'.sent = <<"reply">>
          /\ last_reply' = Some(ApologyText)
          /\ conversation_history' =
                 Append(conversation_history,
                        [role |-> "user", content |-> Val(out'.asked)])
          /\ user_data' = handle_message(State, TextWhy, None, TRUE).user_data
          /\ user_data' = NoMarkers]_vars

\* the apology was the reply and the history ends with the user turn
QaFailureSwallowedWitness ==
    /\ out.op = "message"
    /\ out.qa = "failed"
    /\ out.sent = <<"reply">>
    /\ last_reply = Some(ApologyText)
    /\ conversation_history # <<>>
    /\ conversation_history[Len(conversation_history)].role = "user"

-----------------------------------------------------------------------------
\* C21: when the registration of one delivery time raises during
\* reschedule_jobs, every other delivery time ends with exactly one registered
\* trigger, and the triggers registered before the re-derivation are gone: the
\* jobs are those registered by this re-derivation and no more
OneRegistrationFailed ==
    /\ out'.op = "message"
    /\ out'.sent = <<"time_changed", "settings">>
    /\ Cardinality(out'.failed) = 1

PartialFailureContinues ==
    [][OneRegistrationFailed
       => /\ \A i \in (1..Len(delivery_times')) \ out'.failed :
                 JobsAt(jobs', ist_to_utc(delivery_times'[i])) = 1
          /\ Len(jobs') = Len(delivery_times') - 1]_vars

\* the first of two registrations raised, the second trigger is registered
PartialFailureContinuesWitness ==
    /\ out.op = "message"
    /\ out.failed = {1}
    /\ Len(delivery_times) = 2
    /\ delivery_times[1] # delivery_times[2]
    /\ jobs = <<[name |-> JobName, time |-> ist_to_utc(delivery_times[2])]>>

-----------------------------------------------------------------------------
\* C22: after /clear the conversation history is empty and no pending marker
\* (pending_story, editing_time_idx, adding_topic) is set
ClearStep == out'.op = "clear" /\ runs' = runs

ClearResetsSession ==
    [][ClearStep
       => /\ conversation_history' = <<>>
          /\ user_data' = NoMarkers]_vars

-----------------------------------------------------------------------------
(* The snapshot within one run (SpecRun) *)

\* the topics whose section or placeholder the run r has sent
SentKeys(r) ==
    {runs[r].sent[i].key :
        i \in {j \in 1..Len(runs[r].sent) : runs[r].sent[j].kind \in {"section", "placeholder"}}}

PastHeader(r) == runs[r].pc \in {"typing", "newsapi", "section", "footer", "done"}

Alone(r) == \A q \in RunIds \ {r} : runs[q].pc = "idle"

\* C23 as stated: past its header, the snapshot's keys are exactly the topics
\* that are active and registered and whose fetch has completed in this run
SnapshotKeysActive ==
    \A r \in RunIds :
        (PastHeader(r) /\ Alone(r))
        => DOMAIN todays_digest =
              {k \in SentKeys(r) : k \in DOMAIN topics /\ InList(k, active_topics)}

\* C23: when no other run is in flight, past its header the snapshot's keys
\* are exactly the topics whose fetch has completed in this run, whether or
\* not they are still active and registered: the snapshot was emptied before
\* the first fetch, each key is in the snapshot when its section or
\* placeholder is sent, and no entry of an earlier run is left.  A run ended
\* by the KeyError of bot.py:213 has written the key it was at and no other
SnapshotKeysFetched ==
    \A r \in RunIds :
        Alone(r) =>
            /\ PastHeader(r) => DOMAIN todays_digest = SentKeys(r)
            /\ runs[r].pc = "crashed" =>
                   /\ SentKeys(r) \subseteq DOMAIN todays_digest
                   /\ DOMAIN todays_digest \subseteq SentKeys(r) \cup {runs[r].key}

\* a later run is done, and the topic an earlier run had sent a section of,
\* deleted since, has no entry
SnapshotKeysFetchedWitness ==
    /\ runs[1].pc = "done"
    /\ SentKeys(1) = {BuiltinKey}
    /\ DOMAIN todays_digest = {BuiltinKey}
    /\ \E token \in buttons.ask : token[1] \notin DOMAIN todays_digest

-----------------------------------------------------------------------------
(* Two runs interleaving (SpecTwoRuns) *)

\* the run r leaves the fetch of its topic and writes the result back
FetchCompletes(r) ==
    /\ runs[r].pc \in {"typing", "newsapi"}
    /\ runs'[r].pc \notin {"typing", "newsapi"}

\* the run r leaves the await of its header and assigns the empty mapping
SnapshotReset(r) ==
    /\ runs[r].pc = "header"
    /\ runs'[r].pc # "header"

BothFinished == \A r \in RunIds : runs[r].pc = "done"

\* C24: with settings and registry unchanged, once both interleaved runs have
\* finished the snapshot has an entry for every active registered topic; an
\* entry is only ever assigned by a run, with the result of that run's fetch
\* of the key and leaving the other keys alone, or dropped by the reset at the
\* start of a run, so that each entry is the result of the run that wrote the
\* key last
LastWriterWins ==
    /\ [](BothFinished =>
             \A i \in 1..Len(active_topics) :
                 active_topics[i] \in DOMAIN topics
                 => active_topics[i] \in DOMAIN todays_digest)
    /\ [][/\ \A r \in RunIds :
                FetchCompletes(r) =>
                    todays_digest' = DictSet(todays_digest, runs[r].key, runs'[r].articles)
          /\ todays_digest' # todays_digest =>
                \E r \in RunIds :
                    \/ FetchCompletes(r)
                    \/ SnapshotReset(r) /\ todays_digest' = EmptyDict]_vars

\* a manual and a scheduled run have finished; they fetched different
\* articles for the second topic, and the entry is what the scheduled run
\* fetched
LastWriterWinsWitness ==
    /\ BothFinished
    /\ runs[1].kind = "manual"
    /\ runs[2].kind = "scheduled"
    /\ Len(runs[1].sent) = Len(runs[2].sent)
    /\ Len(active_topics) = 2
    /\ runs[1].articles # runs[2].articles
    /\ todays_digest[active_topics[2]] = runs[2].articles

-----------------------------------------------------------------------------
(* What a reader of the snapshot can see (SpecTwoRuns) *)

\* what fetch_section can return for the topic, whatever its sources hold
CompleteResults(key) ==
    {fetch_section(feeds, world, news_count).arts :
        feeds \in RunFeedWorlds(RssLen(State, key)), world \in RunNewsapiWorlds}

\* the run r goes from the feeds to the await of the search: its fetch is
\* still in progress
FetchGoesOn(r) == runs[r].pc = "typing" /\ runs'[r].pc = "newsapi"

\* C25: at every await of a digest run each entry of the snapshot is the
\* complete, truncated result of one fetch_section call, and a run whose fetch
\* is still in progress leaves the snapshot as it is: its key stays absent or
\* keeps the complete value it had
NoHalfWrittenTopic ==
    /\ [](\A k \in DOMAIN todays_digest :
             /\ todays_digest[k] \in CompleteResults(k)
             /\ Len(todays_digest[k]) <= news_count)
    /\ [][\A r \in RunIds : FetchGoesOn(r) => todays_digest' = todays_digest]_vars

\* the first run awaits the search with no primary article, while the snapshot
\* holds the three articles the second run fetched for the same topic
NoHalfWrittenTopicWitness ==
    /\ runs[1].pc = "newsapi"
    /\ runs[1].arts = <<>>
    /\ runs[1].key \in DOMAIN todays_digest
    /\ Len(todays_digest[runs[1].key]) = 3
    /\ runs[2].pc = "section"
    /\ runs[2].key = runs[1].key

-----------------------------------------------------------------------------
(* Time input validation (SpecSched) *)

\* the text, once stripped, is hh:mm or h:mm for an hour 0..23 and a minute
\* 00..59
IsTimeOfDay(t) ==
    \E c \in {2, 3} :
        /\ Len(t) = c + 2
        /\ t[c] = ":"
        /\ \A i \in (1..Len(t)) \ {c} : t[i] \in Digits
        /\ ParseInt(SubSeq(t, 1, c - 1)) \in 0..23
        /\ ParseInt(SubSeq(t, c + 1, c + 2)) \in 0..59


-----------------------------------------------------------------------------
(* Rejected topic operations (SpecReject, SpecTopics) *)

\* a topic_toggle or topic_delete answered with an alert: the last active
\* topic, or the built-in one
TopicRejected ==
    /\ out'.op \in {"topic_toggle", "topic_delete"}
    /\ out'.sent \in {<<"alert_last_topic">>, <<"alert_default_topic">>}
    /\ runs' = runs

\* C27: a rejected topic_toggle or topic_delete leaves the registry, the
\* active topics, the snapshot and the session markers as they were
RejectionChangesNothing ==
    [][TopicRejected
       => /\ topics' = topics
          /\ active_topics' = active_topics
          /\ todays_digest' = todays_digest
          /\ user_data' = user_data]_vars

\* the toggle of the only active topic was rejected while the snapshot holds
\* a section and the session waits for a topic name
RejectionChangesNothingWitness ==
    /\ out.op = "topic_toggle"
    /\ out.sent = <<"alert_last_topic">>
    /\ Len(active_topics) = 1
    /\ todays_digest # EmptyDict
    /\ user_data.adding_topic # None

-----------------------------------------------------------------------------
(* The shape of the delivery times (SpecShape) *)

-----------------------------------------------------------------------------
(* Duplicate triggers (SpecSched) *)

\* C29: at least one daily_digest trigger is registered and no two registered
\* triggers fire at the same time of day
NoDuplicateTriggers ==
    /\ jobs # <<>>
    /\ \A i, j \in 1..Len(jobs) : i # j => jobs[i].time # jobs[j].time

-----------------------------------------------------------------------------
(* The stored history (SpecChat) *)

\* C30: the stored conversation history of the chat never holds more than 20
\* turns
StoredHistoryBounded == Len(conversation_history) <= 20

-----------------------------------------------------------------------------
(* A story button without its article (Spec) *)

\* the snapshot has no article at (key, idx)
NoArticleAt(key, idx) ==
    \/ key \notin DOMAIN todays_digest
    \/ idx >= Len(todays_digest[key])

\* C31: a story button pressed while the snapshot has no article at its
\* (key, idx) is answered with the not-found reply; the handler does not
\* raise and leaves the pending markers and the snapshot unchanged
MissingStoryGraceful ==
    \A token \in buttons.ask :
        NoArticleAt(token[1], token[2])
        => LET s == handle_story_callback(State, token[1], token[2])
           IN  /\ s.out.op = "ask"
               /\ s.out.sent = <<"story_not_found">>
               /\ ~s.out.raised
               /\ s.user_data = user_data
               /\ s.todays_digest = todays_digest

\* a run has reset the snapshot and awaits its first fetch; the button of an
\* earlier run was pressed and answered with the not-found reply, the marker
\* of a time being edited still set
MissingStoryGracefulWitness ==
    /\ runs[1].pc = "typing"
    /\ todays_digest = EmptyDict
    /\ out.op = "ask"
    /\ out.sent = <<"story_not_found">>
    /\ user_data.editing_time_idx # None
    /\ \E token \in buttons.ask : NoArticleAt(token[1], token[2])

-----------------------------------------------------------------------------
(* A toggle during a run (SpecToggle) *)

\* C32: a topic that is active and registered from the start of a run to its
\* end gets its section or placeholder, also when another topic is toggled
\* off during the run.  Under SpecToggle the topics other than the built-in
\* one are added before the first run and never toggled or deleted
NoTopicSkipped ==
    \A r \in RunIds :
        runs[r].pc = "done"
        => \A k \in (DOMAIN topics) \ {BuiltinKey} :
              InList(k, active_topics) => k \in SentKeys(r)

-----------------------------------------------------------------------------
(* The built-in topic (SpecBuiltin) *)

\* C33: after any sequence of topic additions, topic_toggle and topic_delete
\* the registry has the key "geopolitics" with the built-in configuration; a
\* generated topic with the same key does not replace it
BuiltinPermanent ==
    /\ BuiltinKey \in DOMAIN topics
    /\ topics[BuiltinKey] = BUILTIN_GEOPOLITICS

\* a topic generated with the key "geopolitics" was stored under another key
BuiltinPermanentWitness ==
    /\ out.op = "message"
    /\ out.sent = <<"generating", "topic_added", "settings">>
    /\ \E k \in (DOMAIN topics) \ {BuiltinKey} : topics[k].label = GenGeopolitics.label
    /\ topics[BuiltinKey] = BUILTIN_GEOPOLITICS


====
